---------------------------- MODULE Spec2Model ----------------------------
(***************************************************************************)
(* Model of the googlecast Device (type Cast) of gopi: construction from a *)
(* service record, the connection lifecycle, the cached volume and app,    *)
(* the request facade, and the Device's reader/writer lock.                *)
(*                                                                         *)
(* Strings are sequences of one-character strings, so that txtToMap and    *)
(* ParseUint are computed on the characters as the code computes them.     *)
(* A Go pointer that may be nil (to Cast, Volume or App) is a sequence of  *)
(* length 0 (nil) or 1 (the value pointed to).                             *)
(*                                                                         *)
(* The embedded `connection` and its `channel` are not part of the source  *)
(* at hand; their operators are written from the specification's section  *)
(* 4.2 / 4.3 and are marked as such where they are defined.                *)
(***************************************************************************)
EXTENDS Integers, Sequences, FiniteSets, TLC

VARIABLES
    record,     \* the gopi.ServiceRecord given to NewCastFromRecord
    made,       \* TRUE once NewCastFromRecord has been called
    cast,       \* the Cast pointer: << >> (nil) or << [id, fn, md, rs, st, ips, port] >>
    volume,     \* Cast.volume: << >> or << Volume >>
    app,        \* Cast.app:    << >> or << App >>
    wmutex,     \* RWMutex: the thread that announced Lock() (pending or holding), or None
    readers,    \* RWMutex: number of RLock()s held, per thread
    connState,  \* connection: "Disconnected" | "Connecting" | "Connected"
    loops,      \* connection: number of dispatch loops running
    stop,       \* connection: a teardown is under way, the dispatch loop is to stop
    loopPc,     \* dispatch loop: position
    pc,         \* foreground callers: position of each
    result,     \* foreground callers: the error value returned by the last call
    attempts,   \* ConnectWithTimeout: addresses handed to connection.Connect in this call
    out,        \* frames written to the transport by the caller's current call
    pre,        \* ConnectWithTimeout: what State() returned at the call, then
                \* the volume and app the reset found; Disconnect: the error of
                \* each teardown step made so far
    hist,       \* connection: "never" established so far, or the last of
                \* "conn" (a Connect succeeded) and "disc" (a Disconnect returned)
    pending,    \* transport: a get-status request was written, and since then
                \* no update was merged and the connection did not drop
    errorSink,  \* the error the dispatch loop pushed onto errorSink with its
                \* latest step, None when that step pushed none
    stateSink,  \* the lifecycle state last pushed onto stateSink, None at first
    setRet,     \* SetVolume, SetApp called on their own: << >> or the last
                \* call, << [fn, arg, old, flag] >>
    server,     \* RPC server: [srv, listener], srv << >> (nil) or the
                \* grpc.Server << [stopped] >>, listener << >> or << l >>
    serve,      \* RPC server: the goroutines started to serve, in order;
                \* goroutine l was started with listener l: [pc, lis]
    netListeners, \* RPC server: the listeners that are open
    rpcRet,     \* RPC server: << >> or the last call, << [fn, force, did, err] >>
    evCall      \* evSupportsEventType: [capabilities, types, ret], ret << >>
                \* before the call and << result >> after it

vars == << record, made, cast, volume, app, wmutex, readers, connState, loops,
           stop, loopPc, pc, result, attempts, out, pre, hist, pending, errorSink,
           stateSink, setRet, server, serve, netListeners, rpcRet, evCall >>

-----------------------------------------------------------------------------
(* Bounds *)

\* longest TXT list of a service record
MaxTxt == 2

-----------------------------------------------------------------------------
(* Strings *)

Str0 == << >>

\* base 0 digit values of strconv.ParseUint, decimal and octal digits only
DigitVal(ch) ==
    CASE ch = "0" -> 0 [] ch = "1" -> 1 [] ch = "2" -> 2 [] ch = "3" -> 3
      [] ch = "4" -> 4 [] ch = "5" -> 5 [] ch = "6" -> 6 [] ch = "7" -> 7
      [] ch = "8" -> 8 [] ch = "9" -> 9 [] OTHER -> -1

\* index of the first occurrence of ch in s, 0 when there is none
IndexOf(s, ch) ==
    IF \E i \in 1..Len(s) : s[i] = ch
    THEN CHOOSE i \in 1..Len(s) : s[i] = ch /\ \A j \in 1..(i - 1) : s[j] # ch
    ELSE 0

\* strings.SplitN(r, "=", 2): one piece without "=", else the text before the
\* first "=" and everything after it
SplitN2(r) ==
    LET i == IndexOf(r, "=")
    IN  IF i = 0 THEN << r >>
        ELSE << SubSeq(r, 1, i - 1), SubSeq(r, i + 1, Len(r)) >>

RECURSIVE FoldDigits(_, _, _)
FoldDigits(s, base, acc) ==
    IF s = << >> THEN acc
    ELSE FoldDigits(Tail(s), base, acc * base + DigitVal(Head(s)))

\* strconv.ParseUint(s, 0, 64) on digit strings: a leading "0" selects octal,
\* anything that is not a digit of the base is a syntax error
ParseUint(s) ==
    LET base == IF Len(s) > 1 /\ s[1] = "0" THEN 8 ELSE 10
        body == IF base = 8 THEN Tail(s) ELSE s
        good == /\ body # << >>
                /\ \A i \in 1..Len(body) :
                      DigitVal(body[i]) >= 0 /\ DigitVal(body[i]) < base
    IN  IF good THEN [err |-> FALSE, val |-> FoldDigits(body, base, 0)]
        ELSE [err |-> TRUE, val |-> 0]

\* result[key] = val on a Go map
MapPut(m, key, val) ==
    [k \in (DOMAIN m) \cup {key} |-> IF k = key THEN val ELSE m[k]]

RECURSIVE txtToMapFrom(_, _)
txtToMapFrom(txt, m) ==
    IF txt = << >> THEN m
    ELSE LET kv == SplitN2(Head(txt))
         IN  txtToMapFrom(Tail(txt),
                 IF Len(kv) = 2 THEN MapPut(m, kv[1], kv[2])
                 ELSE MapPut(m, kv[1], Str0))

EmptyMap == [k \in {} |-> Str0]

txtToMap(txt) == txtToMapFrom(txt, EmptyMap)

-----------------------------------------------------------------------------
(* Construction *)

KeyId == << "i", "d" >>
KeyFn == << "f", "n" >>
KeyMd == << "m", "d" >>
KeyRs == << "r", "s" >>
KeySt == << "s", "t" >>

NilPtr == << >>

\* a bug the id test could have: any present id passes, the empty one too
HasIdAnyValue(tuples) == KeyId \in DOMAIN tuples

\* id, exists := tuples["id"]; exists && id != ""
HasId(tuples) == KeyId \in DOMAIN tuples /\ tuples[KeyId] # Str0

\* a bug the fn default could have: a present but empty fn is kept
FriendlyNameKeepEmpty(tuples) ==
    IF KeyFn \in DOMAIN tuples THEN tuples[KeyFn] ELSE tuples[KeyId]

\* this.fn: tuples["fn"] when it exists and is not empty, else this.id
FriendlyName(tuples) ==
    IF KeyFn \in DOMAIN tuples /\ tuples[KeyFn] # Str0
    THEN tuples[KeyFn] ELSE tuples[KeyId]

\* new(Cast): no id, no name, no address, port 0
NewCast ==
    [ id |-> Str0, fn |-> Str0, md |-> Str0, rs |-> Str0, st |-> 0,
      ips |-> << >>, port |-> 0 ]

NewCastFromRecord(r) ==
    LET tuples == txtToMap(r.txt)
        has(k) == k \in DOMAIN tuples
    IN  IF r.port = 0 THEN NilPtr
        ELSE IF Len(r.addrs) = 0 THEN NilPtr
        ELSE IF ~HasId(tuples) THEN NilPtr
        ELSE << [ id   |-> tuples[KeyId],
                  fn   |-> FriendlyName(tuples),
                  md   |-> IF has(KeyMd) THEN tuples[KeyMd] ELSE Str0,
                  rs   |-> IF has(KeyRs) THEN tuples[KeyRs] ELSE Str0,
                  st   |-> IF has(KeySt) /\ ~ParseUint(tuples[KeySt]).err
                           THEN ParseUint(tuples[KeySt]).val ELSE 0,
                  ips  |-> r.addrs,
                  port |-> r.port ] >>

\* TXT entries a discovered record may carry: "id=x", "id=", "id", "fn=TV",
\* "fn=", "st=1", "st=x", "rs=a=b"
TxtEntries ==
    { << "i", "d", "=", "x" >>, << "i", "d", "=" >>, << "i", "d" >>,
      << "f", "n", "=", "T", "V" >>, << "f", "n", "=" >>,
      << "s", "t", "=", "1" >>, << "s", "t", "=", "x" >>,
      << "r", "s", "=", "a", "=", "b" >> }

TxtLists == UNION { [1..n -> TxtEntries] : n \in 0..MaxTxt }

AddrLists == { << >>, << "a1" >>, << "a1", "a2" >> }

\* every record discovery may hand over, valid or not
Records ==
    [ port : {0, 8009}, addrs : AddrLists, txt : TxtLists ]

\* no record: the Cast was made without one
NoRecord == [ port |-> 0, addrs |-> << >>, txt |-> << >> ]

\* the records the Device of the lifecycle model is built from
DeviceRecords ==
    { [ port |-> 8009, addrs |-> << "a1" >>,
        txt |-> << << "i", "d", "=", "x" >> >> ],
      [ port |-> 8009, addrs |-> << "a1", "a2" >>,
        txt |-> << << "i", "d", "=", "x" >>, << "f", "n", "=", "T", "V" >>,
                   << "r", "s", "=", "B" >>, << "s", "t", "=", "1" >> >> ] }

-----------------------------------------------------------------------------
(* Threads, values *)

Callers == { "c1", "c2" }
None == "none"

NoError        == "nil"
ErrNotFound    == "ErrNotFound"
ErrOutOfOrder  == "ErrOutOfOrder"
ErrTransport   == "ErrTransport"
ErrEncode      == "ErrEncode"
ErrDecode      == "ErrDecode"
ErrStop        == "ErrStop"
ErrStopAndTransport == "ErrStop,ErrTransport"

\* connection.Connect on an unreachable address: "a not-found/transport error"
DialErrors == { ErrNotFound, ErrTransport }

\* Volume{Level, Muted}; the level is in tenths (5 is 0.5)
Volumes == { [level |-> 0, muted |-> TRUE], [level |-> 5, muted |-> FALSE] }

\* App: the fields the Device reads
Apps == { [id |-> << "Y" >>, displayName |-> << "Y", "T" >>, transportId |-> << "t" >>],
          [id |-> << "B" >>, displayName |-> Str0, transportId |-> Str0] }

\* the Cast the methods are called on
this == cast[1]

-----------------------------------------------------------------------------
(* Properties: the value each accessor returns once it holds the read lock *)

Id == this.id

Name == this.fn

Model == this.md

\* a bug Service() could have: an app without a display name hides the record
ServiceOfAnyApp ==
    IF app # NilPtr THEN app[1].displayName ELSE this.rs

\* if this.app != nil && this.app.DisplayName != "" ... else return this.rs
Service ==
    IF app # NilPtr /\ app[1].displayName # Str0 THEN app[1].displayName
    ELSE this.rs

\* a bug State() could have: it reports whether the connection is established
StateOfConnection == IF connState = "Connected" THEN 1 ELSE 0

State == this.st

-----------------------------------------------------------------------------
(* sync.RWMutex embedded in Cast *)

\* RLock() goes through unless a writer has announced itself
CanRLock == wmutex = None

\* Lock() first excludes other writers and new readers ...
CanAnnounce == wmutex = None

\* ... and then waits for the readers it found to leave
NoReaders == \A t \in Callers : readers[t] = 0

Running == \A c \in Callers : pc[c] # "panic"

-----------------------------------------------------------------------------
(* Initial states *)

\* server.New: this.srv = grpc.NewServer(opts...), no listener
NewServer == [ srv |-> << [stopped |-> FALSE] >>, listener |-> NilPtr ]

InitServer ==
    /\ server = NewServer
    /\ serve = << >>
    /\ netListeners = {}
    /\ rpcRet = << >>

\* no call of evSupportsEventType: no capabilities, no types, no result
NoEvCall == [ capabilities |-> << >>, types |-> << >>, ret |-> << >> ]

\* the RPC server and evSupportsEventType are programs apart from the Device:
\* while the Device runs they are at rest
InitApart == InitServer /\ evCall = NoEvCall

apart == << server, serve, netListeners, rpcRet, evCall >>

InitDevice ==
    /\ volume = NilPtr
    /\ app = NilPtr
    /\ wmutex = None
    /\ readers = [c \in Callers |-> 0]
    /\ connState = "Disconnected"
    /\ loops = 0
    /\ stop = FALSE
    /\ loopPc = "off"
    /\ pc = [c \in Callers |-> "idle"]
    /\ result = [c \in Callers |-> NoError]
    /\ attempts = [c \in Callers |-> << >>]
    /\ out = [c \in Callers |-> << >>]
    /\ pre = [c \in Callers |-> << >>]
    /\ hist = "never"
    /\ pending = FALSE
    /\ errorSink = None
    /\ stateSink = None
    /\ setRet = << >>

\* the state after NewCastFromRecord on a record of a discovered device, or
\* with a Cast that is the zero value of the exported type
Init ==
    /\ \/ /\ record \in DeviceRecords
          /\ made = TRUE
          /\ cast = NewCastFromRecord(record)
       \/ /\ record = NoRecord
          /\ made = FALSE
          /\ cast = << NewCast >>
    /\ InitDevice
    /\ InitApart

\* construction alone, on every record
InitRecord ==
    /\ record \in Records
    /\ made = FALSE
    /\ cast = NilPtr
    /\ InitDevice
    /\ InitApart

deviceVars == << volume, app, wmutex, readers, connState, loops, stop, loopPc,
                 pc, result, attempts, out, pre, hist, pending, errorSink,
                 stateSink, setRet >>

Construct ==
    /\ ~made
    /\ made' = TRUE
    /\ cast' = NewCastFromRecord(record)
    /\ UNCHANGED << apart, record, deviceVars >>

NextRecord == Construct

SpecRecord == InitRecord /\ [][NextRecord]_vars

-----------------------------------------------------------------------------
(* Caller bookkeeping *)

Goto(c, p) == pc' = [pc EXCEPT ![c] = p]

Return(c, p, err) ==
    /\ pc' = [pc EXCEPT ![c] = p]
    /\ result' = [result EXCEPT ![c] = err]

RetPcs == { "cw_ret", "dc_ret", "us_ret", "la_ret", "vl_ret", "mu_ret", "lu_ret",
            "st_ret" }

\* the call has returned and the caller has looked at what it returned
Returned(c) ==
    /\ Running
    /\ pc[c] \in RetPcs
    /\ pc' = [pc EXCEPT ![c] = "idle"]
    /\ result' = [result EXCEPT ![c] = NoError]
    /\ attempts' = [attempts EXCEPT ![c] = << >>]
    /\ out' = [out EXCEPT ![c] = << >>]
    /\ pre' = [pre EXCEPT ![c] = << >>]
    /\ UNCHANGED << apart, record, made, cast, setRet, errorSink, stateSink, hist, pending, volume, app, wmutex, readers, connState,
                    loops, stop, loopPc >>

-----------------------------------------------------------------------------
(* connection (from the specification, section 4.2) *)

\* a bug Connect could have: it dials whatever the state is
ConnAcceptsAlways == TRUE

\* Connect is accepted only on a connection that is neither established nor
\* being established; otherwise it fails with an ordering error
ConnAccepts == connState = "Disconnected"

\* Connect and a teardown under way exclude each other: Connect waits
ConnFree == ~stop

\* a bug send could have: it writes whatever the state is
SendErrNever == NoError

\* send(data) fails with a transport error unless the connection is established
SendErr == IF connState = "Connected" THEN NoError ELSE ErrTransport

-----------------------------------------------------------------------------
(* ConnectWithTimeout *)

\* a bug the address choice could have: the last address instead of the first
ConnectAddrLast == this.ips[Len(this.ips)]

\* addr: "Use first IP"
ConnectAddr == this.ips[1]

\* a bug the error test could have: the error of Connect is dropped
ConnectFailedNever(err) == FALSE

\* if err := this.connection.Connect(...); err != nil { return err }
ConnectFailed(err) == err # NoError

\* a bug the reset could have: the cache is kept
ResetCacheKeep(cache) == cache

\* this.volume = nil, this.app = nil
ResetCache(cache) == NilPtr

AfterConnect(c, err) ==
    IF ConnectFailed(err) THEN Return(c, "cw_ret", err)
    ELSE Goto(c, "cw_lock") /\ UNCHANGED result

\* a bug the address test could have: the ordering error is returned
NoAddressOutOfOrder == ErrOutOfOrder

\* gopi.ErrNotFound.WithPrefix("ConnectWithTimeout", "No Address")
NoAddress == ErrNotFound

\* the call, with the test for an address
ConnectCall(c) ==
    /\ Running
    /\ pc[c] = "idle"
    /\ pre' = [pre EXCEPT ![c] = << State >>]
    /\ IF Len(this.ips) = 0
       THEN Return(c, "cw_ret", NoAddress)
       ELSE Goto(c, "cw_id") /\ UNCHANGED result
    /\ UNCHANGED << apart, record, made, cast, setRet, errorSink, stateSink, hist, pending, volume, app, wmutex, readers, connState,
                    loops, stop, loopPc, attempts, out >>

\* this.Id(), the first argument of connection.Connect
ConnectId(c) ==
    /\ Running
    /\ pc[c] = "cw_id"
    /\ CanRLock
    /\ Goto(c, "cw_connect")
    /\ UNCHANGED << apart, record, made, cast, setRet, errorSink, stateSink, hist, pending, volume, app, wmutex, readers, connState,
                    loops, stop, loopPc, result, attempts, out, pre >>

\* this.connection.Connect(id, addr, ...) is entered
ConnectBegin(c) ==
    /\ Running
    /\ pc[c] = "cw_connect"
    /\ ConnFree
    /\ attempts' = [attempts EXCEPT ![c] = Append(@, ConnectAddr)]
    /\ IF ConnAccepts
       THEN /\ connState' = "Connecting"
            /\ stateSink' = "Connecting"
            /\ Goto(c, "cw_dial")
            /\ UNCHANGED result
       ELSE /\ AfterConnect(c, ErrOutOfOrder)
            /\ UNCHANGED << connState, stateSink >>
    /\ UNCHANGED << apart, record, made, cast, setRet, errorSink, hist, pending, volume, app, wmutex, readers,
                    loops, stop, loopPc, out, pre >>

\* the transport to addr opens within the timeout, or does not
ConnectDial(c) ==
    /\ Running
    /\ pc[c] = "cw_dial"
    /\ \E err \in {NoError} \cup DialErrors :
          /\ IF err = NoError
             THEN /\ connState' = "Connected"
                  /\ loops' = loops + 1
                  /\ loopPc' = "read"
                  /\ hist' = "conn"
                  /\ pending' = FALSE
                  /\ errorSink' = None
             ELSE /\ connState' = "Disconnected"
                  /\ UNCHANGED << loops, loopPc, hist, pending, errorSink >>
          /\ stateSink' = connState'
          /\ AfterConnect(c, err)
    /\ UNCHANGED << apart, record, made, cast, setRet, volume, app, wmutex, readers,
                    stop, attempts, out, pre >>

\* this.RWMutex.Lock() is called
ConnectLock(c) ==
    /\ Running
    /\ pc[c] = "cw_lock"
    /\ CanAnnounce
    /\ wmutex' = c
    /\ Goto(c, "cw_reset")
    /\ UNCHANGED << apart, record, made, cast, setRet, errorSink, stateSink, hist, pending, volume, app, readers, connState, loops,
                    stop, loopPc, result, attempts, out, pre >>

\* the lock is held: the caches are reset, the lock released, nil returned
ConnectReset(c) ==
    /\ Running
    /\ pc[c] = "cw_reset"
    /\ NoReaders
    /\ volume' = ResetCache(volume)
    /\ app' = ResetCache(app)
    /\ wmutex' = None
    /\ pre' = [pre EXCEPT ![c] = @ \o << volume, app >>]
    /\ Return(c, "cw_ret", NoError)
    /\ UNCHANGED << apart, record, made, cast, setRet, errorSink, stateSink, hist, pending, readers, connState, loops, stop, loopPc,
                    attempts, out >>

-----------------------------------------------------------------------------
(* Disconnect *)

\* this.RWMutex.Lock() is called
DisconnectCall(c) ==
    /\ Running
    /\ pc[c] = "idle"
    /\ CanAnnounce
    /\ wmutex' = c
    /\ Goto(c, "dc_acq")
    /\ UNCHANGED << apart, record, made, cast, setRet, errorSink, stateSink, hist, pending, volume, app, readers, connState, loops,
                    stop, loopPc, result, attempts, out, pre >>

\* a bug the teardown could have: it stops and closes whatever the state is
ConnEstablishedAlways == TRUE

\* connection.Disconnect has something to tear down only when established
ConnEstablished == connState = "Connected"

\* a bug the teardown could have: called with nothing established, it
\* reports an ordering error
NothingToStopRefused == ErrOutOfOrder

\* connection.Disconnect with nothing established: success, nothing done
NothingToStop == NoError

\* a bug the teardown could have: it does not wait for the loop to end
LoopStoppedNoWait == TRUE

\* connection.Disconnect goes on once the dispatch loop has ended
LoopStopped == loopPc = "off"

\* what stopping the loop and closing the transport may each report
StopErrors == { NoError, ErrStop }
CloseErrors == { NoError, ErrTransport }

\* a bug the teardown could have: the first error wins, later ones are lost
AggregateFirst(stopErr, closeErr) ==
    IF stopErr # NoError THEN stopErr ELSE closeErr

\* the combined result of the two teardown steps: nil when neither failed,
\* else an error holding every failure
Aggregate(stopErr, closeErr) ==
    IF stopErr = NoError THEN closeErr
    ELSE IF closeErr = NoError THEN stopErr
    ELSE ErrStopAndTransport

\* a bug Disconnect could have: the error of the teardown is dropped
DisconnectResultDropped(err) == NoError

\* var result error; if err != nil { result = multierror.Append(result, err) }
DisconnectResult(err) == IF err # NoError THEN err ELSE NoError

\* connection.Disconnect has returned err: the caches are reset, the lock is
\* released by the deferred Unlock, the result is returned
DisconnectFinish(c, err) ==
    /\ volume' = NilPtr
    /\ app' = NilPtr
    /\ wmutex' = None
    /\ hist' = IF hist = "never" THEN "never" ELSE "disc"
    /\ Return(c, "dc_ret", DisconnectResult(err))

\* the lock is held: connection.Disconnect() asks the dispatch loop to stop;
\* with nothing established it has nothing to do
DisconnectStop(c) ==
    /\ Running
    /\ pc[c] = "dc_acq"
    /\ NoReaders
    /\ IF ConnEstablished
       THEN /\ stop' = TRUE
            /\ Goto(c, "dc_wait")
            /\ UNCHANGED << volume, app, wmutex, result, hist >>
       ELSE /\ DisconnectFinish(c, NothingToStop)
            /\ UNCHANGED stop
    /\ UNCHANGED << apart, record, made, cast, setRet, errorSink, stateSink, pending, readers, connState, loops,
                    loopPc, attempts, out, pre >>

\* connection.Disconnect: the loop has ended; stopping it may have failed,
\* and the transport is closed next all the same
DisconnectStopped(c) ==
    /\ Running
    /\ pc[c] = "dc_wait"
    /\ LoopStopped
    /\ \E stopErr \in StopErrors : pre' = [pre EXCEPT ![c] = << stopErr >>]
    /\ Goto(c, "dc_close")
    /\ UNCHANGED << apart, record, made, cast, setRet, errorSink, stateSink, hist, pending, volume, app, wmutex,
                    readers, connState, loops, stop, loopPc, result, attempts, out >>

\* connection.Disconnect: the transport is closed, which may fail, and the
\* combined error is returned to Disconnect
DisconnectClose(c) ==
    /\ Running
    /\ pc[c] = "dc_close"
    /\ \E closeErr \in CloseErrors :
          /\ pre' = [pre EXCEPT ![c] = Append(@, closeErr)]
          /\ DisconnectFinish(c, Aggregate(pre[c][1], closeErr))
    /\ stop' = FALSE
    /\ UNCHANGED << apart, record, made, cast, setRet, errorSink, stateSink, pending, readers, connState, loops,
                    loopPc, attempts, out >>

-----------------------------------------------------------------------------
(* The dispatch loop (from the specification, section 4.2) and the merges it *)
(* makes through SetVolume and SetApp                                        *)

\* Volume.Equals, App.Equals: equality by value
Equals(a, b) == a = b

\* a bug the merge could have: only an unknown cache is filled
SetCacheFirstOnly(cache, v) == IF cache = NilPtr THEN << v >> ELSE cache

\* SetVolume, SetApp: the cache after the call
SetCache(cache, v) ==
    IF cache = NilPtr \/ Equals(cache[1], v) = FALSE THEN << v >> ELSE cache

\* a bug the merge could have: a change is reported whatever the value
SetFlagAlways(cache, v, changed) == changed

\* SetVolume, SetApp: the flag returned
SetFlag(cache, v, changed) ==
    IF cache = NilPtr \/ Equals(cache[1], v) = FALSE THEN changed
    ELSE "CAST_FLAG_NONE"

setFrame == << apart, record, made, cast, wmutex, readers, connState, loops, stop,
              loopPc, pc, result, attempts, out, pre, hist, pending, errorSink,
              stateSink >>

\* SetVolume(v) called with the lock free: Lock, compare, replace, Unlock
SetVolume(v) ==
    /\ CanAnnounce /\ NoReaders
    /\ volume' = SetCache(volume, v)
    /\ setRet' = << [ fn |-> "SetVolume", arg |-> << v >>, old |-> volume,
                      flag |-> SetFlag(volume, v, "CAST_FLAG_VOLUME") ] >>
    /\ UNCHANGED << app, setFrame >>

\* SetApp(a) called with the lock free
SetApp(a) ==
    /\ CanAnnounce /\ NoReaders
    /\ app' = SetCache(app, a)
    /\ setRet' = << [ fn |-> "SetApp", arg |-> << a >>, old |-> app,
                      flag |-> SetFlag(app, a, "CAST_FLAG_APP") ] >>
    /\ UNCHANGED << volume, setFrame >>

\* a Device at rest, connected or not, with any caches
InitSet ==
    /\ record \in DeviceRecords
    /\ made = TRUE
    /\ cast = NewCastFromRecord(record)
    /\ volume \in { NilPtr } \cup { << v >> : v \in Volumes }
    /\ app \in { NilPtr } \cup { << a >> : a \in Apps }
    /\ connState \in { "Disconnected", "Connected" }
    /\ loops = IF connState = "Connected" THEN 1 ELSE 0
    /\ loopPc = IF connState = "Connected" THEN "read" ELSE "off"
    /\ hist = "conn"
    /\ wmutex = None
    /\ readers = [c \in Callers |-> 0]
    /\ stop = FALSE
    /\ pc = [c \in Callers |-> "idle"]
    /\ result = [c \in Callers |-> NoError]
    /\ attempts = [c \in Callers |-> << >>]
    /\ out = [c \in Callers |-> << >>]
    /\ pre = [c \in Callers |-> << >>]
    /\ pending = FALSE
    /\ errorSink = IF connState = "Connected" THEN None ELSE ErrTransport
    /\ stateSink = connState
    /\ setRet = << >>
    /\ InitApart

NextSet ==
    \/ \E v \in Volumes : SetVolume(v)
    \/ \E a \in Apps : SetApp(a)

SpecSet == InitSet /\ [][NextSet]_vars

\* a bug the loop could have: an error it meets is not reported
OnErrorSinkDropped(err) == None

\* any decode or I/O error the loop encounters is pushed onto errorSink
OnErrorSink(err) == err

\* a bug the loop could have: it ends without the connection noticing
AfterLoopStays == "Connected"

\* the connection state once the dispatch loop has ended
AfterLoop == "Disconnected"

\* a status frame is read and decoded; what it holds matters at the merge
LoopRecv ==
    /\ Running
    /\ loopPc = "read"
    /\ loopPc' = "merge_lock"
    /\ errorSink' = None
    /\ UNCHANGED << apart, record, made, cast, setRet, stateSink, hist, pending, volume, app,
                    wmutex, readers, connState, loops, stop, pc, result, attempts,
                    out, pre >>

\* a frame is read that does not decode
LoopBadFrame ==
    /\ Running
    /\ loopPc = "read"
    /\ loopPc' = "bad"
    /\ errorSink' = None
    /\ UNCHANGED << apart, record, made, cast, setRet, stateSink, hist, pending, volume, app,
                    wmutex, readers, connState, loops, stop, pc, result, attempts,
                    out, pre >>

\* the protocol-decode error is reported, and the loop reads on
LoopMalformed ==
    /\ Running
    /\ loopPc = "bad"
    /\ loopPc' = "read"
    /\ errorSink' = OnErrorSink(ErrDecode)
    /\ UNCHANGED << apart, record, made, cast, setRet, stateSink, hist, pending, volume, app,
                    wmutex, readers, connState, loops, stop, pc, result, attempts,
                    out, pre >>

\* SetVolume / SetApp: this.RWMutex.Lock() is called
LoopLock ==
    /\ Running
    /\ loopPc = "merge_lock"
    /\ CanAnnounce
    /\ wmutex' = "loop"
    /\ loopPc' = "merge"
    /\ UNCHANGED << apart, record, made, cast, setRet, errorSink, stateSink, hist, pending, volume, app, readers, connState, loops,
                    stop, pc, result, attempts, out, pre >>

\* SetVolume / SetApp: the lock is held, the update is merged, the lock released
LoopMerge ==
    /\ Running
    /\ loopPc = "merge"
    /\ NoReaders
    /\ \/ \E v \in Volumes : volume' = SetCache(volume, v) /\ UNCHANGED app
       \/ \E a \in Apps : app' = SetCache(app, a) /\ UNCHANGED volume
    /\ wmutex' = None
    /\ loopPc' = "read"
    /\ pending' = FALSE
    /\ UNCHANGED << apart, record, made, cast, setRet, errorSink, stateSink, hist, readers, connState, loops, stop, pc,
                    result, attempts, out, pre >>

LoopEnds(err) ==
    /\ loopPc' = "off"
    /\ loops' = loops - 1
    /\ connState' = AfterLoop
    /\ stateSink' = AfterLoop
    /\ errorSink' = OnErrorSink(err)
    /\ pending' = FALSE
    /\ UNCHANGED << apart, record, made, cast, setRet, hist, volume, app, wmutex, readers, stop,
                    pc, result, attempts, out, pre >>

\* the loop sees that Disconnect asked it to stop, and exits
LoopExit ==
    /\ Running
    /\ loopPc = "read"
    /\ stop
    /\ LoopEnds(None)

\* the loop meets an unrecoverable transport error, and exits
LoopFail ==
    /\ Running
    /\ loopPc = "read"
    /\ LoopEnds(ErrTransport)

-----------------------------------------------------------------------------
(* channel (from the specification, section 4.3): the frame of each intent *)

Frame(kind, id, level, muted) ==
    [kind |-> kind, id |-> id, level |-> level, muted |-> muted]

GetStatus == Frame("GET_STATUS", Str0, 0, FALSE)
LaunchAppWithId(appId) == Frame("LAUNCH", appId, 0, FALSE)
SetVolumeFrame(v) == Frame("SET_VOLUME", Str0, v.level, v.muted)
SetMutedFrame(muted) == Frame("SET_MUTED", Str0, 0, muted)
ConnectMedia(transportId) == Frame("CONNECT", transportId, 0, FALSE)
LoadUrl(transportId) == Frame("LOAD", transportId, 0, FALSE)

\* encoding may fail
EncErrors == { NoError, ErrEncode }

-----------------------------------------------------------------------------
(* Requests *)

\* a bug the error chain could have: the error of send is dropped
ReqResultDropSend(encErr, sendErr) == encErr

\* if _, data, err := this.channel.X(); err != nil { return err }
\* else if err := this.send(data); err != nil { return err }; return nil
ReqResult(encErr, sendErr) ==
    IF encErr # NoError THEN encErr ELSE sendErr

\* encode, then send: what the call returns and what reaches the transport
Transmit(c, frame, encErr) ==
    /\ result' = [result EXCEPT ![c] =
                     ReqResult(encErr, IF encErr = NoError THEN SendErr ELSE NoError)]
    /\ out' = [out EXCEPT ![c] =
                  IF encErr = NoError /\ SendErr = NoError THEN Append(@, frame) ELSE @]
    /\ pending' = (pending \/ (frame = GetStatus /\ encErr = NoError /\ SendErr = NoError))

SendPcs == { "us_send", "la_send", "vl_send", "mu_send" }

\* UpdateStatus, ReqLaunchAppWithId, ReqVolumeLevel, ReqMuted: RLock()
ReqCall(c) ==
    /\ Running
    /\ pc[c] = "idle"
    /\ CanRLock
    /\ readers' = [readers EXCEPT ![c] = @ + 1]
    /\ \E p \in SendPcs : Goto(c, p)
    /\ UNCHANGED << apart, record, made, cast, setRet, errorSink, stateSink, hist, pending, volume, app, wmutex, connState, loops,
                    stop, loopPc, result, attempts, out, pre >>

ReqDone(c, p) ==
    /\ readers' = [readers EXCEPT ![c] = @ - 1]
    /\ Goto(c, p)
    /\ UNCHANGED << apart, record, made, cast, setRet, errorSink, stateSink, hist, app, wmutex, connState, loops,
                    stop, loopPc, attempts >>

\* a bug the test could have: the request is sent whatever the caches hold
NeedStatusAlways == TRUE

\* if this.volume == nil || this.app == nil
NeedStatus == volume = NilPtr \/ app = NilPtr

UpdateStatus(c) ==
    /\ Running
    /\ pc[c] = "us_send"
    /\ IF NeedStatus
       THEN \E encErr \in EncErrors : Transmit(c, GetStatus, encErr)
       ELSE result' = [result EXCEPT ![c] = NoError] /\ UNCHANGED << out, pending >>
    /\ UNCHANGED << volume, pre >>
    /\ ReqDone(c, "us_ret")

AppIds == { << "Y" >> }

ReqLaunchAppWithId(c) ==
    /\ Running
    /\ pc[c] = "la_send"
    /\ \E appId \in AppIds, encErr \in EncErrors :
          Transmit(c, LaunchAppWithId(appId), encErr)
    /\ UNCHANGED << volume, pre >>
    /\ ReqDone(c, "la_ret")

\* the float32 that is not a number; every other level is a number of tenths
NaN == -1000

\* levels asked for, in tenths: below, at and above the ends of [0.0, 1.0],
\* and NaN
Levels == { -3, 0, 5, 10, 17, NaN }

\* float32 comparison: a comparison with NaN is false
FLess(a, b) == a # NaN /\ b # NaN /\ a < b
FEqual(a, b) == a # NaN /\ b # NaN /\ a = b

\* a bug the clamp could have: silence is not sent in its canonical form
VolumeForLevelNoMute(level) ==
    [level |-> IF FLess(level, 0) THEN 0 ELSE IF FLess(10, level) THEN 10 ELSE level,
     muted |-> FALSE]

\* a bug the clamp could have: no upper end
VolumeForLevelNoUpper(level) ==
    LET clamped == IF FLess(level, 0) THEN 0 ELSE level
    IN  IF FEqual(clamped, 0) THEN [level |-> 0, muted |-> TRUE]
        ELSE [level |-> clamped, muted |-> FALSE]

\* Clamp value between 0.0 and 1.0; level 0 is sent as muted
VolumeForLevel(level) ==
    LET clamped == IF FLess(level, 0) THEN 0
                   ELSE IF FLess(10, level) THEN 10 ELSE level
    IN  IF FEqual(clamped, 0) THEN [level |-> 0, muted |-> TRUE]
        ELSE [level |-> clamped, muted |-> FALSE]

\* channel.SetVolume: a level that is not a number has no serialized form
EncErrorsOf(v) == IF v.level = NaN THEN { ErrEncode } ELSE EncErrors

\* a bug the request could have: it stores the volume it asks for
ReqVolumeCacheStored(cache, v) == << v >>

\* v is a local of ReqVolumeLevel: this.volume is not assigned
ReqVolumeCache(cache, v) == cache

ReqVolumeLevel(c) ==
    /\ Running
    /\ pc[c] = "vl_send"
    /\ \E level \in Levels :
          /\ pre' = [pre EXCEPT ![c] = << level >>]
          /\ volume' = ReqVolumeCache(volume, VolumeForLevel(level))
          /\ \E encErr \in EncErrorsOf(VolumeForLevel(level)) :
                Transmit(c, SetVolumeFrame(VolumeForLevel(level)), encErr)
    /\ ReqDone(c, "vl_ret")

ReqMuted(c) ==
    /\ Running
    /\ pc[c] = "mu_send"
    /\ \E muted \in BOOLEAN, encErr \in EncErrors :
          Transmit(c, SetMutedFrame(muted), encErr)
    /\ UNCHANGED << volume, pre >>
    /\ ReqDone(c, "mu_ret")

loadFrame == << apart, record, made, cast, setRet, errorSink, stateSink, hist, volume, app, wmutex, readers, connState,
                loops, stop, loopPc, attempts, pre >>

\* a bug the test could have: an app without a transport id passes
NoTransportNilOnly == app = NilPtr

\* this.app == nil || this.app.TransportId == ""
NoTransport == app = NilPtr \/ app[1].transportId = Str0

\* a bug the chain could have: a failed ConnectMedia does not end the call
LoadAbortsNever(err) == FALSE

\* ConnectMedia or its send returned err: return err, LoadUrl is not reached
LoadAborts(err) == err # NoError

\* ReqLoadURL takes no lock. The test of this.app
ReqLoadURL(c) ==
    /\ Running
    /\ pc[c] = "idle"
    /\ IF NoTransport
       THEN Return(c, "lu_ret", ErrOutOfOrder)
       ELSE Goto(c, "lu_connect") /\ UNCHANGED result
    /\ UNCHANGED << loadFrame, out, pending >>

\* this.app is read again for ConnectMedia: a nil app is a nil dereference
LoadConnectMedia(c) ==
    /\ Running
    /\ pc[c] = "lu_connect"
    /\ IF app = NilPtr
       THEN Goto(c, "panic") /\ UNCHANGED << result, out, pending >>
       ELSE \E encErr \in EncErrors :
               /\ Transmit(c, ConnectMedia(app[1].transportId), encErr)
               /\ Goto(c, IF LoadAborts(ReqResult(encErr, SendErr))
                          THEN "lu_ret" ELSE "lu_load")
    /\ UNCHANGED loadFrame

\* this.app is read again for LoadUrl
LoadLoadUrl(c) ==
    /\ Running
    /\ pc[c] = "lu_load"
    /\ IF app = NilPtr
       THEN Goto(c, "panic") /\ UNCHANGED << result, out, pending >>
       ELSE \E encErr \in EncErrors :
               /\ Transmit(c, LoadUrl(app[1].transportId), encErr)
               /\ Goto(c, "lu_ret")
    /\ UNCHANGED loadFrame

-----------------------------------------------------------------------------
(* The Device: any caller makes any call, the dispatch loop runs *)

Next ==
    \/ \E c \in Callers : ConnectCall(c)
    \/ \E c \in Callers : ConnectId(c)
    \/ \E c \in Callers : ConnectBegin(c)
    \/ \E c \in Callers : ConnectDial(c)
    \/ \E c \in Callers : ConnectLock(c)
    \/ \E c \in Callers : ConnectReset(c)
    \/ \E c \in Callers : DisconnectCall(c)
    \/ \E c \in Callers : DisconnectStop(c)
    \/ \E c \in Callers : DisconnectStopped(c)
    \/ \E c \in Callers : DisconnectClose(c)
    \/ \E c \in Callers : ReqCall(c)
    \/ \E c \in Callers : UpdateStatus(c)
    \/ \E c \in Callers : ReqLaunchAppWithId(c)
    \/ \E c \in Callers : ReqVolumeLevel(c)
    \/ \E c \in Callers : ReqMuted(c)
    \/ \E c \in Callers : ReqLoadURL(c)
    \/ \E c \in Callers : LoadConnectMedia(c)
    \/ \E c \in Callers : LoadLoadUrl(c)
    \/ \E c \in Callers : Returned(c)
    \/ LoopRecv
    \/ LoopBadFrame
    \/ LoopMalformed
    \/ LoopLock
    \/ LoopMerge
    \/ LoopExit
    \/ LoopFail

Spec == Init /\ [][Next]_vars

-----------------------------------------------------------------------------
(* String(), and the lifecycle with the scheduling it can count on *)

\* the accessors String() calls while it holds the shared lock, in order:
\* this.Id(), this.Name(), this.Model(), this.Service(), this.State()
StringPcs == << "st_id", "st_name", "st_model", "st_service", "st_state", "st_end" >>

PcIndex(p) == CHOOSE i \in 1..Len(StringPcs) : StringPcs[i] = p

stringFrame == << apart, record, made, cast, setRet, errorSink, stateSink, hist,
                 pending, volume, app, wmutex, connState, loops, stop, loopPc,
                 result, attempts, out, pre >>

\* String(): this.RWMutex.RLock()
StringCall(c) ==
    /\ Running
    /\ pc[c] = "idle"
    /\ CanRLock
    /\ readers' = [readers EXCEPT ![c] = @ + 1]
    /\ Goto(c, StringPcs[1])
    /\ UNCHANGED stringFrame

\* an accessor called by String(): RLock(), which waits while a writer has
\* asked for the lock, the read, and the deferred RUnlock()
StringAccessor(c) ==
    /\ Running
    /\ pc[c] \in { StringPcs[i] : i \in 1..(Len(StringPcs) - 1) }
    /\ CanRLock
    /\ Goto(c, StringPcs[PcIndex(pc[c]) + 1])
    /\ UNCHANGED << stringFrame, readers >>

\* String() returns: the deferred RUnlock()
StringDone(c) ==
    /\ Running
    /\ pc[c] = "st_end"
    /\ readers' = [readers EXCEPT ![c] = @ - 1]
    /\ Goto(c, "st_ret")
    /\ UNCHANGED stringFrame

NextLive ==
    \/ \E c \in Callers : ConnectCall(c)
    \/ \E c \in Callers : ConnectId(c)
    \/ \E c \in Callers : ConnectBegin(c)
    \/ \E c \in Callers : ConnectDial(c)
    \/ \E c \in Callers : ConnectLock(c)
    \/ \E c \in Callers : ConnectReset(c)
    \/ \E c \in Callers : DisconnectCall(c)
    \/ \E c \in Callers : DisconnectStop(c)
    \/ \E c \in Callers : DisconnectStopped(c)
    \/ \E c \in Callers : DisconnectClose(c)
    \/ \E c \in Callers : StringCall(c)
    \/ \E c \in Callers : StringAccessor(c)
    \/ \E c \in Callers : StringDone(c)
    \/ \E c \in Callers : Returned(c)
    \/ LoopRecv
    \/ LoopBadFrame
    \/ LoopMalformed
    \/ LoopLock
    \/ LoopMerge
    \/ LoopExit
    \/ LoopFail

\* a call that has been made runs on whenever it can: a step that waits for
\* the lock is taken if the lock is free again and again, every other step
\* if it stays possible; the loop looks at the request to stop on every
\* round. Making a call, and a frame arriving, are up to the environment.
Fairness ==
    /\ \A c \in Callers :
          /\ SF_vars(ConnectId(c))
          /\ WF_vars(ConnectBegin(c))
          /\ WF_vars(ConnectDial(c))
          /\ SF_vars(ConnectLock(c))
          /\ WF_vars(ConnectReset(c))
          /\ WF_vars(DisconnectStop(c))
          /\ WF_vars(DisconnectStopped(c))
          /\ WF_vars(DisconnectClose(c))
          /\ SF_vars(StringAccessor(c))
          /\ WF_vars(StringDone(c))
    /\ WF_vars(LoopMalformed)
    /\ SF_vars(LoopLock)
    /\ WF_vars(LoopMerge)
    /\ SF_vars(LoopExit)

SpecLive == Init /\ [][NextLive]_vars /\ Fairness

-----------------------------------------------------------------------------
(* evSupportsEventType *)

\* longest list of capabilities, and of types, in a call
MaxEv == 3

EV_KEY == 1
EV_REL == 2

\* the event types that occur in the lists
EvTypes == { EV_KEY, EV_REL }

EvLists == UNION { [1..n -> EvTypes] : n \in 0..MaxEv }

\* the inner loop: for _, typ := range types { if typ == capability { count++ } }
RECURSIVE evCountTypes(_, _)
evCountTypes(capability, types) ==
    IF types = << >> THEN 0
    ELSE (IF Head(types) = capability THEN 1 ELSE 0)
         + evCountTypes(capability, Tail(types))

\* the outer loop: for _, capability := range capabilities
RECURSIVE evCount(_, _)
evCount(capabilities, types) ==
    IF capabilities = << >> THEN 0
    ELSE evCountTypes(Head(capabilities), types) + evCount(Tail(capabilities), types)

\* return (count == len(types))
evSupportsEventType(capabilities, types) ==
    evCount(capabilities, types) = Len(types)

deviceAtRest == << record, made, cast, deviceVars >>

\* any lists of capabilities and of types, the call not made yet
InitEv ==
    /\ record = NoRecord
    /\ made = FALSE
    /\ cast = << NewCast >>
    /\ InitDevice
    /\ InitServer
    /\ evCall \in [ capabilities : EvLists, types : EvLists, ret : { << >> } ]

\* the call is made and returns
EvSupports ==
    /\ evCall.ret = << >>
    /\ evCall' = [evCall EXCEPT
                     !.ret = << evSupportsEventType(evCall.capabilities, evCall.types) >>]
    /\ UNCHANGED << deviceAtRest, server, serve, netListeners, rpcRet >>

NextEv == EvSupports

SpecEv == InitEv /\ [][NextEv]_vars

-----------------------------------------------------------------------------
(* RPC server: StartInBackground, Stop, Dispose and the goroutines that     *)
(* serve. A call holds the server's Mutex from its first line to its return  *)
(* and is one step; a goroutine holds no lock and is a process of its own.   *)

\* most listeners net.Listen creates
MaxStarts == 3

ErrListen == "ErrListen"

\* an unrecovered panic in a goroutine ends the program
Alive == \A g \in 1..Len(serve) : serve[g].pc # "panic"

\* grpc.Server: the listeners it is serving on
Served == { serve[g].lis[1] : g \in { h \in 1..Len(serve) : serve[h].pc = "serving" } }

\* grpc.Server Stop and GracefulStop: every listener served is closed and
\* every Serve returns nil, after which its goroutine has nothing left to do
ServeStopped ==
    [g \in 1..Len(serve) |->
        IF serve[g].pc = "serving" THEN [serve[g] EXCEPT !.pc = "done"] ELSE serve[g]]

\* a bug Stop could have: the flag is ignored
StopCallForced(force) == "Stop"

\* if force { this.srv.Stop() } else { this.srv.GracefulStop() }
StopCall(force) == IF force THEN "Stop" ELSE "GracefulStop"

\* this.listener = nil
ListenerAfterStop == NilPtr

\* if this.listener != nil { return gopi.ErrOutOfOrder }
ListenerSet == server.listener # NilPtr

Called(fn, force, did, err) ==
    rpcRet' = << [fn |-> fn, force |-> force, did |-> did, err |-> err] >>

\* this.listener.Addr().String(): the address of listener l, never empty
AddrOf(l) == << l >>

Addr == IF server.listener # NilPtr THEN AddrOf(server.listener[1]) ELSE Str0

StartInBackground ==
    /\ Alive
    /\ server.srv # NilPtr
    /\ IF ListenerSet
       THEN /\ Called("StartInBackground", FALSE, "none", ErrOutOfOrder)
            /\ UNCHANGED << server, serve, netListeners >>
       ELSE \/ /\ Called("StartInBackground", FALSE, "none", ErrListen)
               /\ UNCHANGED << server, serve, netListeners >>
            \/ /\ Len(serve) < MaxStarts
               /\ server' = [server EXCEPT !.listener = << Len(serve) + 1 >>]
               /\ netListeners' = netListeners \cup { Len(serve) + 1 }
               /\ serve' = Append(serve, [pc |-> "spawned", lis |-> NilPtr])
               /\ Called("StartInBackground", FALSE, "none", NoError)
    /\ UNCHANGED << deviceAtRest, evCall >>

Stop(force) ==
    /\ Alive
    /\ server.srv # NilPtr
    /\ IF server.listener = NilPtr
       THEN /\ Called("Stop", force, "none", NoError)
            /\ UNCHANGED << server, serve, netListeners >>
       ELSE /\ netListeners' = netListeners \ Served
            /\ serve' = ServeStopped
            /\ server' = [srv |-> << [stopped |-> TRUE] >>, listener |-> ListenerAfterStop]
            /\ Called("Stop", force, StopCall(force), NoError)
    /\ UNCHANGED << deviceAtRest, evCall >>

\* Dispose takes no lock itself; Stop(true) if there is a listener, then both
\* fields are set to nil
Dispose ==
    /\ Alive
    /\ server.srv # NilPtr
    /\ IF server.listener # NilPtr
       THEN /\ netListeners' = netListeners \ Served
            /\ serve' = ServeStopped
            /\ Called("Dispose", TRUE, StopCall(TRUE), NoError)
       ELSE /\ Called("Dispose", TRUE, "none", NoError)
            /\ UNCHANGED << serve, netListeners >>
    /\ server' = [srv |-> NilPtr, listener |-> NilPtr]
    /\ UNCHANGED << deviceAtRest, evCall >>

\* the goroutine reads this.srv and this.listener without the Mutex: it sees
\* what the field holds now or, the read being a data race, what it held
\* when the goroutine was started. (Once a goroutine has been started and
\* the fields have changed, the grpc.Server has been stopped.)
SrvReads ==
    IF server.srv = NilPtr THEN { NilPtr, << [stopped |-> TRUE] >> } ELSE { server.srv }

ListenerReads(g) == { server.listener, << g >> }

\* go func() { this.srv.Serve(this.listener) }: on a nil server, and on a nil
\* listener, a nil dereference; on a stopped server Serve closes the listener
\* and returns ErrServerStopped, which is printed; else it serves
ServeBegin(g) ==
    /\ Alive
    /\ g \in 1..Len(serve)
    /\ serve[g].pc = "spawned"
    /\ \E srv \in SrvReads, lis \in ListenerReads(g) :
          IF srv = NilPtr \/ lis = NilPtr
          THEN /\ serve' = [serve EXCEPT ![g].pc = "panic"]
               /\ UNCHANGED netListeners
          ELSE IF srv[1].stopped
          THEN /\ serve' = [serve EXCEPT ![g] = [pc |-> "failed", lis |-> lis]]
               /\ netListeners' = netListeners \ { lis[1] }
          ELSE /\ serve' = [serve EXCEPT ![g] = [pc |-> "serving", lis |-> lis]]
               /\ UNCHANGED netListeners
    /\ UNCHANGED << deviceAtRest, evCall, server, rpcRet >>

\* a server made by New, the Device and evSupportsEventType not in use
InitRpc ==
    /\ record = NoRecord
    /\ made = FALSE
    /\ cast = << NewCast >>
    /\ InitDevice
    /\ evCall = NoEvCall
    /\ InitServer

NextRpc ==
    \/ StartInBackground
    \/ \E force \in BOOLEAN : Stop(force)
    \/ Dispose
    \/ \E g \in 1..MaxStarts : ServeBegin(g)

SpecRpc == InitRpc /\ [][NextRpc]_vars

-----------------------------------------------------------------------------
(* The fields of a service record, read off its TXT entries: an entry names *)
(* key k when it is k itself or starts with k followed by "="; of several   *)
(* entries naming k the last one counts.                                    *)

EntryNames(e, k) ==
    \/ e = k
    \/ /\ Len(e) > Len(k)
       /\ SubSeq(e, 1, Len(k)) = k
       /\ e[Len(k) + 1] = "="

EntryValue(e, k) ==
    IF e = k THEN Str0 ELSE SubSeq(e, Len(k) + 2, Len(e))

RecHas(r, k) == \E i \in 1..Len(r.txt) : EntryNames(r.txt[i], k)

RecVal(r, k) ==
    LET last == CHOOSE i \in 1..Len(r.txt) :
                    /\ EntryNames(r.txt[i], k)
                    /\ \A j \in (i + 1)..Len(r.txt) : ~EntryNames(r.txt[j], k)
    IN  EntryValue(r.txt[last], k)

RecValid(r) ==
    /\ RecHas(r, KeyId) /\ RecVal(r, KeyId) # Str0
    /\ r.port # 0
    /\ Len(r.addrs) >= 1

-----------------------------------------------------------------------------
(* Claims: construction *)

\* C1: a record with a non-empty id, a non-zero port and at least one address
\* yields a Device, whose Name() is the record's friendly name when that is
\* present and non-empty, and the id otherwise.
C1_ValidRecordGivesNamedDevice ==
    (made /\ RecValid(record)) =>
        /\ cast # NilPtr
        /\ Name = IF RecHas(record, KeyFn) /\ RecVal(record, KeyFn) # Str0
                  THEN RecVal(record, KeyFn)
                  ELSE RecVal(record, KeyId)

\* C1 witness: a valid record whose friendly name is present but empty has
\* been constructed, and Name() is its id.
C1_Witness ==
    /\ made /\ RecValid(record) /\ cast # NilPtr
    /\ RecHas(record, KeyFn) /\ RecVal(record, KeyFn) = Str0
    /\ Name = RecVal(record, KeyId)

\* C2: a record with an empty or missing id, a zero port or no address yields
\* no Device, whatever its other fields hold.
C2_InvalidRecordGivesNoDevice ==
    (made /\ ~RecValid(record)) => cast = NilPtr

\* C2 witness: construction was refused for a record that has a port, an
\* address and a friendly name, and an id that is present but empty.
C2_Witness ==
    /\ made /\ cast = NilPtr
    /\ record.port # 0 /\ Len(record.addrs) >= 1
    /\ RecHas(record, KeyId) /\ RecVal(record, KeyId) = Str0
    /\ RecHas(record, KeyFn) /\ RecVal(record, KeyFn) # Str0

-----------------------------------------------------------------------------
(* Claims: requests and the connection state *)

\* caller c takes a step
Steps(c) == pc'[c] # pc[c]

\* caller c takes the step of a request that encodes and sends, or that
\* decides without sending
RequestStep(c) ==
    \/ pc[c] \in SendPcs \cup { "lu_connect", "lu_load" } /\ Steps(c)
    \/ pc[c] = "idle" /\ pc'[c] = "lu_ret"

C4_OnlyListedTransitions ==
    [][connState' # connState =>
          \/ /\ connState = "Disconnected" /\ connState' = "Connecting"
             /\ \E c \in Callers : pc[c] = "cw_connect" /\ pc'[c] = "cw_dial"
          \/ /\ connState = "Connecting" /\ connState' = "Connected"
             /\ \E c \in Callers : pc[c] = "cw_dial" /\ pc'[c] = "cw_lock"
          \/ /\ connState = "Connecting" /\ connState' = "Disconnected"
             /\ \E c \in Callers :
                   pc[c] = "cw_dial" /\ pc'[c] = "cw_ret" /\ result'[c] # NoError
          \/ /\ connState = "Connected" /\ connState' = "Disconnected"
             /\ loopPc = "read" /\ loopPc' = "off"]_vars

\* C4 witness: a Disconnect that found the Device Connected and waited for the
\* loop has returned (with the error of closing the transport), and the state
\* is Disconnected again: every listed transition has been taken.
C4_Witness ==
    \E c \in Callers :
        pc[c] = "dc_ret" /\ result[c] = ErrTransport /\ connState = "Disconnected"

\* C5 as stated: what State() returns after a successful ConnectWithTimeout
\* (Connected) is not what it returned at the call (Disconnected).
C5_Original ==
    \A c \in Callers :
        (pc[c] = "cw_ret" /\ result[c] = NoError) => State # pre[c][1]

\* C5 amended: a ConnectWithTimeout that succeeds entered connection.Connect
\* with the connection Disconnected and left it Connected; State() does not
\* report this, it returns the record's status flag, the same after the call
\* as at the call.
C5_ConnectMakesConnected ==
    [][\A c \in Callers :
          /\ (pc[c] = "cw_connect" /\ pc'[c] = "cw_dial") =>
                 connState = "Disconnected" /\ connState' = "Connecting"
          /\ (pc[c] = "cw_dial" /\ pc'[c] = "cw_lock") =>
                 connState = "Connecting" /\ connState' = "Connected"
          /\ (pc[c] = "cw_reset" /\ pc'[c] = "cw_ret") =>
                 result'[c] = NoError /\ State' = pre[c][1]
          /\ (pc'[c] = "cw_ret" /\ Steps(c) /\ result'[c] = NoError) =>
                 pc[c] = "cw_reset"]_vars

\* C5 witness: a ConnectWithTimeout has returned nil, the connection is
\* Connected and State() is what it was at the call.
C5_Witness ==
    \E c \in Callers :
        /\ pc[c] = "cw_ret" /\ result[c] = NoError
        /\ connState = "Connected" /\ State = pre[c][1]

\* C6: a connect that finds the connection Connected returns the ordering
\* error; the connection stays Connected, the dispatch loop is left as it is
\* and the caches are not reset.
C6_ConnectWhileConnected ==
    [][\A c \in Callers :
          (pc[c] = "cw_connect" /\ Steps(c) /\ connState = "Connected") =>
              /\ pc'[c] = "cw_ret" /\ result'[c] = ErrOutOfOrder
              /\ connState' = "Connected"
              /\ loops' = loops /\ loopPc' = loopPc
              /\ volume' = volume /\ app' = app]_vars

\* C6 witness: a connect has returned the ordering error, and the Device is
\* Connected with its loop running and both caches known.
C6_Witness ==
    \E c \in Callers :
        /\ pc[c] = "cw_ret" /\ result[c] = ErrOutOfOrder
        /\ connState = "Connected" /\ loops = 1
        /\ volume # NilPtr /\ app # NilPtr

\* C7: at most one dispatch loop runs, and exactly one while Connected.
C7_OneLoop ==
    /\ loops <= 1
    /\ connState = "Connected" => loops = 1

\* C7 witness: one caller's Disconnect has returned, the other caller's
\* connect has returned nil, and the Device is Connected with its one loop.
C7_Witness ==
    /\ connState = "Connected" /\ loops = 1
    /\ \E c, d \in Callers :
          /\ pc[c] = "cw_ret" /\ result[c] = NoError
          /\ pc[d] = "dc_ret"

\* C8: the step that ends a successful ConnectWithTimeout leaves the cached
\* volume and the cached app unknown, whatever they held.
C8_ConnectResetsCaches ==
    [][\A c \in Callers :
          (pc[c] = "cw_reset" /\ Steps(c)) =>
              /\ pc'[c] = "cw_ret" /\ result'[c] = NoError
              /\ volume' = NilPtr /\ app' = NilPtr]_vars

\* C8 witness: a connect has returned nil; its reset found a volume and an
\* app, and both are unknown now.
C8_Witness ==
    \E c \in Callers :
        /\ pc[c] = "cw_ret" /\ result[c] = NoError
        /\ Len(pre[c]) = 3 /\ pre[c][2] # NilPtr /\ pre[c][3] # NilPtr
        /\ volume = NilPtr /\ app = NilPtr

\* C9: a ConnectWithTimeout whose transport does not open returns an error
\* and leaves the connection Disconnected with no loop; no step of a connect
\* before its reset touches the caches.
C9_FailedConnect ==
    [][\A c \in Callers :
          /\ (pc[c] = "cw_dial" /\ Steps(c) /\ connState' # "Connected") =>
                 /\ pc'[c] = "cw_ret" /\ result'[c] \in DialErrors
                 /\ connState' = "Disconnected"
                 /\ loops = 0 /\ loops' = 0
          /\ (pc[c] \in { "cw_id", "cw_connect", "cw_dial" } /\ Steps(c)) =>
                 volume' = volume /\ app' = app
          /\ (pc[c] = "idle" /\ pc'[c] \in { "cw_id", "cw_ret" }) =>
                 volume' = volume /\ app' = app]_vars

\* C9 witness: a connect has failed to open the transport; the Device is
\* Disconnected without a loop and still holds a volume and an app.
C9_Witness ==
    \E c \in Callers :
        /\ pc[c] = "cw_ret" /\ result[c] \in DialErrors
        /\ connState = "Disconnected" /\ loops = 0
        /\ volume # NilPtr /\ app # NilPtr

\* C10: a ConnectWithTimeout of a Device made from a record hands one address
\* to connection.Connect, the first of the record, once; when it has
\* returned, with or without an error, that is still the only attempt it
\* made. (A Device without an address has none to hand over.)
C10_OneAttemptFirstAddress ==
    \A c \in Callers :
        /\ (pc[c] \in { "cw_dial", "cw_lock", "cw_reset", "cw_ret" }
               /\ record.addrs # << >>) =>
               attempts[c] = << record.addrs[1] >>
        /\ (pc[c] \notin { "cw_dial", "cw_lock", "cw_reset", "cw_ret" }
               \/ record.addrs = << >>) =>
               attempts[c] = << >>

\* C10 witness: a connect of a Device with two addresses has failed, and the
\* first address is the only one it tried.
C10_Witness ==
    \E c \in Callers :
        /\ pc[c] = "cw_ret" /\ result[c] \in DialErrors
        /\ Len(record.addrs) = 2
        /\ attempts[c] = << record.addrs[1] >>

-----------------------------------------------------------------------------
(* Claims: a Device without an address, and Disconnect *)

\* C11: ConnectWithTimeout on a Device that has no address returns the
\* not-found error at once: nothing is handed to connection.Connect, and the
\* connection state, the dispatch loop and both caches are left as they were.
C11_NoAddressNotFound ==
    [][\A c \in Callers :
          (pc[c] = "idle" /\ pc'[c] \in { "cw_id", "cw_ret" }
              /\ Len(this.ips) = 0) =>
              /\ pc'[c] = "cw_ret" /\ result'[c] = ErrNotFound
              /\ attempts'[c] = << >>
              /\ connState' = connState /\ loops' = loops /\ loopPc' = loopPc
              /\ volume' = volume /\ app' = app]_vars

\* C11 witness: a connect of the Device without an address has returned the
\* not-found error with no attempt made, and the connection is Disconnected.
C11_Witness ==
    \E c \in Callers :
        /\ Len(this.ips) = 0
        /\ pc[c] = "cw_ret" /\ result[c] = ErrNotFound /\ attempts[c] = << >>
        /\ connState = "Disconnected" /\ loops = 0

\* the errors of the teardown steps a Disconnect has made, nil ones left out
Failures(errs) == { errs[i] : i \in 1..Len(errs) } \ { NoError }

\* the errors a returned error holds
Errors(err) ==
    IF err = NoError THEN { }
    ELSE IF err = ErrStopAndTransport THEN { ErrStop, ErrTransport }
    ELSE { err }

\* C12: every Disconnect goes through connection.Disconnect, and whatever
\* that returned, the step that returns from Disconnect leaves the cached
\* volume and app unknown; a failed teardown makes Disconnect return an error,
\* a clean one makes it return nil.
C12_DisconnectAlwaysResets ==
    [][\A c \in Callers :
          /\ (pc'[c] = "dc_ret" /\ Steps(c)) =>
                 /\ pc[c] \in { "dc_acq", "dc_close" }
                 /\ volume' = NilPtr /\ app' = NilPtr
                 /\ (Failures(pre'[c]) # { }) <=> (result'[c] # NoError)
          /\ (pc'[c] \in { "dc_wait", "dc_close" } /\ Steps(c)) =>
                 pc[c] \in { "dc_acq", "dc_wait" }
          /\ (pc'[c] = "dc_acq" /\ Steps(c)) => pc[c] = "idle"]_vars

\* C12 witness: a Disconnect whose teardown failed has returned that error,
\* and both caches are unknown.
C12_Witness ==
    \E c \in Callers :
        /\ pc[c] = "dc_ret" /\ result[c] = ErrTransport
        /\ pre[c] = << NoError, ErrTransport >>
        /\ volume = NilPtr /\ app = NilPtr

\* C13: on a Device whose connection was never established, the step of
\* Disconnect that enters connection.Disconnect returns nil at once and does
\* nothing on the transport: no stop is asked of a loop, nothing is closed,
\* nothing is written, and the connection state is left as it was.
C13_DisconnectNeverConnected ==
    [][\A c \in Callers :
          (pc[c] = "dc_acq" /\ Steps(c) /\ hist = "never") =>
              /\ pc'[c] = "dc_ret" /\ result'[c] = NoError
              /\ pre'[c] = << >> /\ out' = out
              /\ stop' = stop /\ connState' = connState
              /\ loops = 0 /\ loops' = 0]_vars

\* C13 witness: a Disconnect has returned nil on a Device that was never
\* connected, while the other caller's connect is still trying.
C13_Witness ==
    \E c, d \in Callers :
        /\ hist = "never" /\ pc[c] = "dc_ret" /\ result[c] = NoError
        /\ pc[d] = "cw_dial" /\ connState = "Connecting"

C16_TeardownAggregates ==
    [][\A c \in Callers :
          /\ (pc[c] = "dc_wait" /\ Steps(c)) =>
                 pc'[c] = "dc_close" /\ Len(pre'[c]) = 1
          /\ (pc[c] = "dc_close" /\ Steps(c)) =>
                 /\ pc'[c] = "dc_ret" /\ Len(pre'[c]) = 2
                 /\ Errors(result'[c]) = Failures(pre'[c])]_vars

\* C16 witness: a Disconnect whose stop of the loop and whose close of the
\* transport both failed has returned an error holding both.
C16_Witness ==
    \E c \in Callers :
        /\ pc[c] = "dc_ret" /\ pre[c] = << ErrStop, ErrTransport >>
        /\ Errors(result[c]) = { ErrStop, ErrTransport }

-----------------------------------------------------------------------------
(* Claims: UpdateStatus, SetVolume and SetApp *)

\* C17: the step of UpdateStatus that tests the caches writes nothing and
\* returns nil when both are known; when one is unknown it makes one send of
\* one get-status frame, which is written unless encoding or the send fails,
\* and then the error is returned; on an established connection only
\* encoding can fail. No step of UpdateStatus changes the cached volume or app.
C17_UpdateStatusSendsOnce ==
    [][\A c \in Callers :
          (pc[c] = "us_send" /\ Steps(c)) =>
              /\ volume' = volume /\ app' = app
              /\ out[c] = << >>
              /\ (volume # NilPtr /\ app # NilPtr) =>
                     out'[c] = << >> /\ result'[c] = NoError
              /\ (volume = NilPtr \/ app = NilPtr) =>
                     /\ \/ out'[c] = << GetStatus >> /\ result'[c] = NoError
                        \/ out'[c] = << >> /\ result'[c] \in { ErrEncode, ErrTransport }
                     /\ (connState = "Connected" /\ result'[c] # ErrEncode) =>
                            out'[c] = << GetStatus >>]_vars

\* C17 witness: with the volume known and the app unknown, an UpdateStatus
\* has written its one get-status request and returned nil; the app is still
\* unknown.
C17_Witness ==
    \E c \in Callers :
        /\ pc[c] = "us_ret" /\ result[c] = NoError /\ out[c] = << GetStatus >>
        /\ volume # NilPtr /\ app = NilPtr

\* C18 as stated: UpdateStatus writes a get-status request only when none is
\* in flight, that is, none was written since the last merge, connect or
\* drop of the connection.
C18_Original ==
    [][\A c \in Callers :
          (pc[c] = "us_send" /\ Steps(c) /\ out'[c] # out[c]) => ~pending]_vars

\* C19: SetVolume with a value equal to the cached volume returns the
\* no-change flag and leaves the cached volume, the cached app and the
\* connection as they were; it writes nothing to the transport.
C19_SetVolumeEqual ==
    [][(/\ setRet' # << >> /\ setRet'[1].fn = "SetVolume"
        /\ volume # NilPtr /\ Equals(volume[1], setRet'[1].arg[1])) =>
           /\ setRet'[1].flag = "CAST_FLAG_NONE"
           /\ volume' = volume /\ app' = app
           /\ connState' = connState /\ loops' = loops /\ loopPc' = loopPc
           /\ out' = out]_vars

\* C19 witness: on a connected Device with both caches known, SetVolume was
\* called with the cached value and returned the no-change flag.
C19_Witness ==
    /\ setRet # << >> /\ setRet[1].fn = "SetVolume"
    /\ setRet[1].old # NilPtr /\ setRet[1].old = setRet[1].arg
    /\ setRet[1].flag = "CAST_FLAG_NONE"
    /\ volume = setRet[1].old /\ app # NilPtr /\ connState = "Connected"

\* C20: SetVolume with a value that differs from the cached volume, or with
\* the volume unknown, makes the cached volume the given value and returns
\* the volume flag; SetApp does the same for the app with the app flag;
\* SetVolume leaves the cached app as it was and SetApp the cached volume.
C20_SetReplaces ==
    [][setRet' # << >> =>
          /\ setRet'[1].fn = "SetVolume" =>
                 /\ app' = app
                 /\ (volume = NilPtr \/ volume # setRet'[1].arg) =>
                        /\ volume' = setRet'[1].arg
                        /\ setRet'[1].flag = "CAST_FLAG_VOLUME"
          /\ setRet'[1].fn = "SetApp" =>
                 /\ volume' = volume
                 /\ (app = NilPtr \/ app # setRet'[1].arg) =>
                        /\ app' = setRet'[1].arg
                        /\ setRet'[1].flag = "CAST_FLAG_APP"]_vars

\* C20 witness: SetApp was called with an app other than the cached one and
\* returned the app flag; the cached app is the given one and the cached
\* volume is still known.
C20_Witness ==
    /\ setRet # << >> /\ setRet[1].fn = "SetApp"
    /\ setRet[1].old # NilPtr /\ setRet[1].old # setRet[1].arg
    /\ setRet[1].flag = "CAST_FLAG_APP"
    /\ app = setRet[1].arg /\ volume # NilPtr


-----------------------------------------------------------------------------
(* Claims: the volume level, LoadMedia, locks and caches, the loop's errors *)

Mute == [level |-> 0, muted |-> TRUE]

\* C21: SetVolumeLevel asked for a level at or below 0 sends what
\* SetVolumeLevel(0) sends, level 0 with muted set: whenever its frame is
\* written it is that frame, and it is written whenever the call succeeds.
C21_NonPositiveIsMute ==
    [][\A c \in Callers :
          (/\ pc[c] = "vl_send" /\ Steps(c)
           /\ (FLess(pre'[c][1], 0) \/ FEqual(pre'[c][1], 0))) =>
              /\ out'[c] \in { out[c], Append(out[c], SetVolumeFrame(Mute)) }
              /\ result'[c] = NoError => out'[c] # out[c]]_vars

\* C21 witness: a level of -0.3 was asked for and the muted level 0 was sent.
C21_Witness ==
    \E c \in Callers :
        /\ pc[c] = "vl_ret" /\ pre[c] = << -3 >>
        /\ out[c] = << SetVolumeFrame(Mute) >>

C23_LoadNeedsTransport ==
    [][\A c \in Callers :
          (/\ pc[c] = "idle" /\ pc'[c] \in { "lu_ret", "lu_connect" }
           /\ (app = NilPtr \/ app[1].transportId = Str0)) =>
              /\ pc'[c] = "lu_ret"
              /\ result'[c] = ErrOutOfOrder
              /\ out'[c] = << >>]_vars

\* C23 witness: LoadMedia was refused for an app that has no transport id.
C23_Witness ==
    \E c \in Callers :
        /\ pc[c] = "lu_ret" /\ result[c] = ErrOutOfOrder /\ out[c] = << >>
        /\ app # NilPtr /\ app[1].transportId = Str0

HasLoad(frames) == \E i \in 1..Len(frames) : frames[i].kind = "LOAD"

\* C24: a LoadMedia that gets past its test sends connect-media first and
\* load second; if connect-media cannot be encoded or sent the call returns
\* that failure with nothing written, and load is written only by the step
\* that follows a connect-media that was sent.
C24_ConnectMediaBeforeLoad ==
    [][\A c \in Callers :
          /\ (pc[c] = "lu_connect" /\ Steps(c) /\ pc'[c] # "panic") =>
                IF result'[c] = NoError
                THEN /\ pc'[c] = "lu_load"
                     /\ out'[c] = << ConnectMedia(app[1].transportId) >>
                ELSE /\ pc'[c] = "lu_ret"
                     /\ out'[c] = << >>
          /\ (pc[c] = "lu_load" /\ Steps(c) /\ pc'[c] # "panic") =>
                /\ Len(out[c]) = 1 /\ out[c][1].kind = "CONNECT"
                /\ out'[c] \in { out[c], Append(out[c], LoadUrl(app[1].transportId)) }
                /\ result'[c] = NoError <=> out'[c] # out[c]
          /\ (HasLoad(out'[c]) /\ ~HasLoad(out[c])) => pc[c] = "lu_load"]_vars

\* C24 witness: a LoadMedia has succeeded, connect-media then load written.
C24_Witness ==
    \E c \in Callers :
        /\ pc[c] = "lu_ret" /\ result[c] = NoError
        /\ out[c] = << ConnectMedia(<< "t" >>), LoadUrl(<< "t" >>) >>

\* C25 as stated: whenever a request writes a frame to the transport, its
\* caller holds the Device lock neither shared nor exclusive.
C25_Original ==
    [][\A c \in Callers :
          Len(out'[c]) > Len(out[c]) => readers[c] = 0 /\ wmutex # c]_vars

\* C26: no step of a control request changes the cached volume or app; the
\* caches change only when the dispatch loop merges an update, and when a
\* connect or a disconnect resets both.
C26_RequestsLeaveCaches ==
    [][/\ \A c \in Callers :
             (/\ Steps(c)
              /\ \/ pc[c] \in SendPcs \cup { "lu_connect", "lu_load" }
                 \/ pc'[c] \in SendPcs \cup { "lu_connect", "lu_ret" }) =>
                 volume' = volume /\ app' = app
       /\ (volume' # volume \/ app' # app) =>
             \/ loopPc = "merge" /\ loopPc' = "read"
             \/ \E c \in Callers :
                   /\ pc[c] = "cw_reset" /\ pc'[c] = "cw_ret"
                   /\ volume' = NilPtr /\ app' = NilPtr
             \/ \E c \in Callers :
                   /\ pc[c] \in { "dc_acq", "dc_close" } /\ pc'[c] = "dc_ret"
                   /\ volume' = NilPtr /\ app' = NilPtr]_vars

\* C26 witness: full volume was asked for and sent while the cache holds the
\* muted volume last reported.
C26_Witness ==
    \E c \in Callers :
        /\ pc[c] = "vl_ret" /\ result[c] = NoError
        /\ out[c] = << SetVolumeFrame([level |-> 10, muted |-> FALSE]) >>
        /\ volume = << Mute >>

\* C27: a malformed inbound frame puts a protocol-decode error on errorSink
\* and ends nothing: the connection was and stays Connected, no lifecycle
\* transition is pushed, the caches are unchanged, and the loop reads on.
C27_MalformedFrameNotFatal ==
    [][(loopPc = "bad" /\ loopPc' # "bad") =>
          /\ errorSink' = ErrDecode
          /\ loopPc' = "read"
          /\ connState = "Connected" /\ connState' = "Connected"
          /\ stateSink' = stateSink
          /\ loops' = loops
          /\ volume' = volume /\ app' = app]_vars

\* C27 witness: the decode error is on errorSink, the loop is reading again,
\* still Connected, with the volume it had merged before.
C27_Witness ==
    /\ errorSink = ErrDecode /\ loopPc = "read"
    /\ connState = "Connected" /\ loops = 1
    /\ volume # NilPtr

\* C28: when the loop meets an unrecoverable transport error while Connected
\* (no Disconnect having asked it to stop), the error is pushed onto
\* errorSink, the state becomes Disconnected and that transition is pushed
\* onto stateSink; nothing reconnects: no address is tried, no loop runs, and
\* Disconnected is left only by a caller entering Connect.
C28_TransportErrorEndsConnection ==
    [][/\ (loopPc = "read" /\ loopPc' = "off" /\ ~stop) =>
             /\ connState = "Connected"
             /\ errorSink' = ErrTransport
             /\ connState' = "Disconnected"
             /\ stateSink' = "Disconnected"
             /\ loops' = 0
             /\ attempts' = attempts
       /\ (connState = "Disconnected" /\ connState' # "Disconnected") =>
             /\ connState' = "Connecting"
             /\ \E c \in Callers : pc[c] = "cw_connect" /\ pc'[c] = "cw_dial"]_vars

\* C28 witness: with every caller at rest and no Disconnect ever made, the
\* loop has ended on a transport error.
C28_Witness ==
    /\ connState = "Disconnected" /\ loopPc = "off" /\ loops = 0
    /\ errorSink = ErrTransport /\ stateSink = "Disconnected"
    /\ hist = "conn" /\ ~stop
    /\ \A c \in Callers : pc[c] = "idle"

\* the step of caller c hands an encoded frame to send
SendInvoked(c) ==
    /\ pc[c] \in SendPcs \cup { "lu_connect", "lu_load" }
    /\ Steps(c)
    /\ pc'[c] # "panic"
    /\ pc[c] = "us_send" => NeedStatus
    /\ result'[c] # ErrEncode

\* C29: send on a connection that is not established fails with the transport
\* error and writes no frame.
C29_SendNotEstablished ==
    [][\A c \in Callers :
          (SendInvoked(c) /\ connState # "Connected") =>
              result'[c] = ErrTransport /\ out'[c] = out[c]]_vars

\* C29 witness: after a Disconnect, a launch request came back with the
\* transport error and nothing written.
C29_Witness ==
    \E c \in Callers :
        /\ pc[c] = "la_ret" /\ result[c] = ErrTransport /\ out[c] = << >>
        /\ connState = "Disconnected" /\ hist = "disc"

\* C30 as stated: whenever the connection is Disconnected the cached volume
\* and app are unknown. (States in which a connect or a disconnect holds the
\* lock, about to reset the caches, are left aside.)
C30_Original ==
    (connState = "Disconnected" /\ wmutex = None) =>
        volume = NilPtr /\ app = NilPtr


-----------------------------------------------------------------------------
(* Claims: races of the connect, of LoadMedia; Service() *)

\* C31 as stated: the dispatch loop of a newly established connection merges
\* no update while the connect that established it has yet to reset the
\* caches, so that the reset discards none.
C31_Original ==
    [][(loopPc = "merge" /\ loopPc' = "read") =>
          \A c \in Callers : pc[c] # "cw_lock"]_vars

\* C33 as stated: neither step of LoadMedia reads an absent app, and load is
\* addressed to the transport id connect-media was addressed to.
C33_Original ==
    [][\A c \in Callers :
          (pc[c] \in { "lu_connect", "lu_load" } /\ Steps(c)) =>
              /\ pc'[c] # "panic"
              /\ (pc[c] = "lu_load" /\ out'[c] # out[c]) =>
                    /\ out'[c][2].id = out[c][1].id
                    /\ out'[c][2].id # Str0]_vars

\* the status text of the record the Device was made from
StatusText == IF RecHas(record, KeyRs) THEN RecVal(record, KeyRs) ELSE Str0

\* C35: after every step Service() is the display name of the cached app when
\* an app is cached and its display name is not empty, and the status text of
\* the record otherwise; when Disconnect returns it is the status text.
C35_ServiceNamesApp ==
    [][/\ Service' = IF app' # NilPtr /\ app'[1].displayName # Str0
                     THEN app'[1].displayName ELSE StatusText
       /\ \A c \in Callers :
             (Steps(c) /\ pc'[c] = "dc_ret") => Service' = StatusText]_vars

\* C35 witness: Disconnect has returned on a Device whose record carries a
\* status text, and Service() is that text.
C35_Witness ==
    \E c \in Callers :
        /\ pc[c] = "dc_ret" /\ hist = "disc"
        /\ StatusText = << "B" >> /\ Service = << "B" >>


-----------------------------------------------------------------------------
(* Claims: evSupportsEventType *)

\* C39 as stated: the call returns true exactly when every event type in
\* types occurs in capabilities, whatever the lists, repeated entries included.
C39_Original ==
    evCall.ret # << >> =>
        evCall.ret[1] = (\A i \in 1..Len(evCall.types) :
                            \E j \in 1..Len(evCall.capabilities) :
                                evCall.capabilities[j] = evCall.types[i])


-----------------------------------------------------------------------------
(* Claims: the RPC server *)

\* the call that has just returned
Returns(fn) == rpcRet' # rpcRet /\ rpcRet'[1].fn = fn

\* the goroutines that are to serve or are serving
Serving == { g \in 1..Len(serve) : serve[g].pc \in { "spawned", "serving" } }

\* C36 as stated: StartInBackground on a server whose listener is set returns
\* the out-of-order error, creates no listener and starts no goroutine; and
\* at every moment at most one listener is open and at most one goroutine is
\* to serve or serving.
C36_Original ==
    /\ [][(Returns("StartInBackground") /\ server.listener # NilPtr) =>
             /\ rpcRet'[1].err = ErrOutOfOrder
             /\ netListeners' = netListeners
             /\ serve' = serve]_vars
    /\ [](Cardinality(netListeners) <= 1 /\ Cardinality(Serving) <= 1)

\* C37: Stop on a server with no listener returns nil and changes nothing;
\* Stop on a server with a listener calls Stop when forced and GracefulStop
\* when not, after which the grpc server is stopped and no goroutine serves,
\* clears the listener and returns nil; after either, Addr() is empty.
C37_StopClearsListener ==
    [][Returns("Stop") =>
          /\ rpcRet'[1].err = NoError
          /\ server'.listener = NilPtr
          /\ Addr' = Str0
          /\ IF server.listener = NilPtr
             THEN /\ rpcRet'[1].did = "none"
                  /\ server' = server
                  /\ serve' = serve
                  /\ netListeners' = netListeners
             ELSE /\ rpcRet'[1].did = IF rpcRet'[1].force THEN "Stop" ELSE "GracefulStop"
                  /\ server'.srv # NilPtr /\ server'.srv[1].stopped
                  /\ \A g \in 1..Len(serve') : serve'[g].pc # "serving"
                  /\ Served \cap netListeners' = {}]_vars

\* C37 witness: a server that was serving has been stopped gracefully.
C37_Witness ==
    /\ rpcRet = << [fn |-> "Stop", force |-> FALSE, did |-> "GracefulStop",
                    err |-> NoError] >>
    /\ server.listener = NilPtr /\ Addr = Str0
    /\ Len(serve) = 1 /\ serve[1].pc = "done"
    /\ netListeners = {}

\* C38 as stated: from a successful StartInBackground until the next Stop or
\* Dispose, that is for as long as the listener is set, the goroutine started
\* with the listener is about to serve or serving on it, and it is open.
C38_Original ==
    server.listener # NilPtr =>
        LET l == server.listener[1]
        IN  /\ l \in netListeners
            /\ \/ serve[l].pc = "spawned"
               \/ serve[l].pc = "serving" /\ serve[l].lis = server.listener


-----------------------------------------------------------------------------
(* Claims: calls that return *)

\* C32 as stated: a Disconnect that holds the lock and waits for the dispatch
\* loop to stop returns in the end, whatever the loop was doing.
C32_Original ==
    \A c \in Callers : (pc[c] = "dc_wait") ~> (pc[c] = "dc_ret")

\* C34 as stated: a String() that holds the shared lock returns in the end,
\* whoever asks for the exclusive lock meanwhile.
C34_Original ==
    \A c \in Callers :
        (pc[c] \in { StringPcs[i] : i \in 1..Len(StringPcs) }) ~> (pc[c] = "st_ret")

=============================================================================
